---------------------------- MODULE Spec2Model ----------------------------
(***************************************************************************)
(* The analytics hub of lab-os (src/hub/analyzer.py): the MQTT message     *)
(* handler on_message and the objects it drives: OnlineStats (Welford      *)
(* mean/M2, EMA, slope window), IntelligentAnomalyDetector,                *)
(* PredictiveMaintenance and CrossInstrumentCorrelator.                    *)
(*                                                                         *)
(* Numbers.  A Python float is modelled as an exact rational <<num, den>>  *)
(* in lowest terms with den > 0.  Two recurrences have denominators that   *)
(* grow without bound (the EMA and the smoothed drift rate); they are      *)
(* kept in fixed point, as integers counting MICRO-ths, rounded toward     *)
(* minus infinity after every step.  The standard deviation is a square    *)
(* root; the model carries its square (the sample variance) and the        *)
(* square of the z-score, and compares squares.                            *)
(***************************************************************************)
EXTENDS Integers, Sequences, FiniteSets, TLC

(***************************************************************************)
(* Program constants (src/hub/analyzer.py).                                *)
(***************************************************************************)
SLOPE_WINDOW == 30
BUFFER_MAXLEN == 100
\* A detector that takes 40 vectors for enough.
WARMUP_SHORT == 5 * 8
WARMUP == 50
MIN_N_ANOMALY == 20
MIN_N_DRIFT == 30
MIN_N_HEALTH == 10
Z_THRESHOLD == 3
DAY_SECONDS == 86400
HOUR_SECONDS == 3600
HASH_MOD == 1000
MIN_CORR_POINTS == 10
CORR_TAIL == 50
CORR_PERIOD == 100
TOP_CORRELATIONS == 5
DEFAULT_CAL_INTERVAL == 60
SCOPE1_CAL_INTERVAL == 30
MULTIMETER_CAL_INTERVAL == 90
POWER_SUPPLY_CAL_INTERVAL == 180
EPS_INV == 1000000000
MICRO == 1000000

(***************************************************************************)
(* Bounds of the model (not program constants).                            *)
(***************************************************************************)
MaxFree == 3
MaxOdd == 1
MaxLoopMsgs == 3
TailTicks == 4
E2ETicks == 25
JumpTick == 21
HealthTicks == 103
RoundTicks == 52
MaxPolls == 3
MaxRequests == 4
Now0 == 1762041595
Ts0 == 86390

(***************************************************************************)
(* Rational arithmetic.                                                    *)
(***************************************************************************)
Abs(x) == IF x < 0 THEN -x ELSE x

RECURSIVE GCD(_, _)
GCD(a, b) == IF b = 0 THEN a ELSE GCD(b, a % b)

LCM(a, b) == (a \div GCD(a, b)) * b

Norm(n, d) ==
    LET g == GCD(Abs(n), d)
    IN  <<n \div g, d \div g>>

Zero == <<0, 1>>
FromInt(k) == <<k, 1>>

RNeg(a) == <<-a[1], a[2]>>
RAbs(a) == <<Abs(a[1]), a[2]>>

RAdd(a, b) ==
    LET l == LCM(a[2], b[2])
    IN  Norm(a[1] * (l \div a[2]) + b[1] * (l \div b[2]), l)

RSub(a, b) == RAdd(a, RNeg(b))

RMul(a, b) ==
    LET g1 == GCD(Abs(a[1]), b[2])
        g2 == GCD(Abs(b[1]), a[2])
    IN  Norm((a[1] \div g1) * (b[1] \div g2), (a[2] \div g2) * (b[2] \div g1))

\* a / b for b # 0
RDiv(a, b) ==
    IF b[1] > 0 THEN RMul(a, <<b[2], b[1]>>) ELSE RMul(a, <<-b[2], -b[1]>>)

RLt(a, b) == RSub(a, b)[1] < 0
RLe(a, b) == RSub(a, b)[1] <= 0

\* floor(a * MICRO): a float as a count of MICRO-ths
ToMicro(a) == (a[1] * MICRO) \div a[2]


(***************************************************************************)
(* Decoded telemetry.  A JSON value of a metric key is absent, a number or *)
(* a non-numeric value (a string).  A record is the decoded dict d of      *)
(* on_message: `device' and `ts' may be missing.                           *)
(***************************************************************************)
Absent == [t |-> "absent", v |-> Zero]
Num(q) == [t |-> "num", v |-> q]
Str == [t |-> "str", v |-> Zero]

NoDevice == "<missing>"

Rec(dev, hasTs, ts, v, c) ==
    [device |-> dev, has_ts |-> hasTs, ts |-> ts, voltage |-> v, current |-> c]

\* d.get("device", "unknown")                       (analyzer.py line 267)
DeviceOf(d) == IF d.device = NoDevice THEN "unknown" ELSE d.device

\* d.get(key)
Get(d, key) == IF key = "voltage" THEN d.voltage ELSE d.current

METRICS == <<"voltage", "current">>

(***************************************************************************)
(* class OnlineStats                                                       *)
(***************************************************************************)
ALPHA_NUM == 1
ALPHA_DEN == 5

\* Optional values: None is the empty tuple, a value x is <<x>>.
None == <<>>
Some(x) == <<x>>

\* OnlineStats.__init__
NewOnlineStats ==
    [n |-> 0, mean |-> Zero, M2 |-> Zero, ema |-> None, hist |-> <<>>]

\* deque(maxlen=k).append
DequeAppend(q, x, maxlen) ==
    IF Len(q) >= maxlen THEN Append(Tail(q), x) ELSE Append(q, x)

\* alpha * x + (1 - alpha) * ema, in MICRO-ths
EmaStep(ema, xm) == (ALPHA_NUM * xm + (ALPHA_DEN - ALPHA_NUM) * ema) \div ALPHA_DEN

\* OnlineStats.update(x) for a number x.
UpdateNum(s, x) ==
    LET n1    == s.n + 1
        delta == RSub(x, s.mean)
        mean1 == RAdd(s.mean, RDiv(delta, FromInt(n1)))
        M21   == RAdd(s.M2, RMul(delta, RSub(x, mean1)))
        ema1  == IF s.ema = None THEN ToMicro(x) ELSE EmaStep(s.ema[1], ToMicro(x))
    IN  [n |-> n1, mean |-> mean1, M2 |-> M21, ema |-> Some(ema1),
         hist |-> DequeAppend(s.hist, ema1, SLOPE_WINDOW)]

\* OnlineStats.update(x).  With a non-numeric x the count is already
\* incremented when `x - self.mean' raises TypeError.
update(s, x) ==
    IF x.t = "num"
    THEN [s |-> UpdateNum(s, x.v), exc |-> ""]
    ELSE [s |-> [s EXCEPT !.n = s.n + 1], exc |-> "TypeError"]

\* OnlineStats.std, squared: M2 / (n - 1) if n > 1 else 0.0
Variance(s) == IF s.n > 1 THEN RDiv(s.M2, FromInt(s.n - 1)) ELSE Zero

\* st > 1e-9, on the square of st: var > 1 / EPS_INV^2
StdAboveEps(var) ==
    /\ var[1] > 0
    /\ ((var[2] \div var[1]) \div EPS_INV) < EPS_INV

\* A slope taken per value held rather than per step between values.
slopePerValue(s) ==
    IF Len(s.hist) < 2 THEN Zero
    ELSE Norm(s.hist[Len(s.hist)] - s.hist[1], Len(s.hist) * MICRO)

\* OnlineStats.slope
slope(s) ==
    IF Len(s.hist) < 2 THEN Zero
    ELSE Norm(s.hist[Len(s.hist)] - s.hist[1], (Len(s.hist) - 1) * MICRO)


(***************************************************************************)
(* Program state (module globals of analyzer.py) and what the last         *)
(* dispatch did.                                                           *)
(***************************************************************************)
VARIABLES
    stats,              \* stats[dev][metric]: OnlineStats          (line 243)
    feature_buffer,     \* anomaly_detector.feature_buffer           (line 55)
    is_fitted,          \* anomaly_detector.is_fitted                (line 54)
    n_features_in,      \* width the scaler and the forest were fitted on
    device_health,      \* maintenance_predictor.device_health      (line 129)
    correlation_data,   \* correlation_analyzer.correlation_data    (line 184)
    significant_correlations,                                    \* (line 186)
    out,                \* alerts handed to c.publish by the last dispatch
    published,          \* those of them that reached the bus
    logged,             \* lines appended to alerts.ndjson by the last dispatch
    exc,                \* exception caught by the last dispatch ("" if none)
    det,                \* what detect_anomaly did in the last dispatch
    reached,            \* the step the last dispatch got to
    analysed,           \* analyze_correlations ran in the last dispatch
    alerts_path,        \* the day in the name of the log file      (lines 15-18)
    msg,                \* the payload last dispatched
    tick,               \* number of payloads dispatched so far
    plan,               \* the traffic the bus carries in this run
    odd,                \* irregular payloads and sink failures so far
    inbox,              \* payloads received, not yet handed to on_message
    active,             \* dispatches begun and not yet returned
    steps,              \* the dispatch each executed step belonged to
    started,            \* api.py _started: name -> process          (line 27)
    registry_lock,      \* api.py _registry_lock: 0 or its holder     (line 28)
    procs,              \* the sidecar processes spawned so far
    calls               \* the requests the API threads are serving

\* The analyzer's variables and the API's.
hubVars == <<stats, feature_buffer, is_fitted, n_features_in, device_health,
             correlation_data, significant_correlations, out, published, logged,
             exc, det, reached, analysed, alerts_path, msg, tick, plan, odd, inbox,
             active, steps>>

apiVars == <<started, registry_lock, procs, calls>>

vars == <<stats, feature_buffer, is_fitted, n_features_in, device_health,
          correlation_data, significant_correlations, out, published, logged,
          exc, det, reached, analysed, alerts_path, msg, tick, plan, odd, inbox,
          active, steps, started, registry_lock, procs, calls>>

DEVICES == {"scope1", "psu", "multimeter", "power_supply", "unknown"}

\* The program state as one value, threaded through the steps of on_message.
State ==
    [stats |-> stats, feature_buffer |-> feature_buffer, is_fitted |-> is_fitted,
     n_features_in |-> n_features_in, device_health |-> device_health,
     correlation_data |-> correlation_data,
     significant_correlations |-> significant_correlations,
     out |-> out, published |-> published, logged |-> logged, exc |-> exc,
     det |-> det, reached |-> reached, analysed |-> analysed,
     alerts_path |-> alerts_path]

Commit(S) ==
    /\ stats' = S.stats
    /\ feature_buffer' = S.feature_buffer
    /\ is_fitted' = S.is_fitted
    /\ n_features_in' = S.n_features_in
    /\ device_health' = S.device_health
    /\ correlation_data' = S.correlation_data
    /\ significant_correlations' = S.significant_correlations
    /\ out' = S.out
    /\ published' = S.published
    /\ logged' = S.logged
    /\ exc' = S.exc
    /\ det' = S.det
    /\ reached' = S.reached
    /\ analysed' = S.analysed
    /\ alerts_path' = S.alerts_path
    /\ UNCHANGED apiVars

NoDetect == [called |-> FALSE, returned |-> FALSE, consulted |-> FALSE,
             trained |-> FALSE, is_anomaly |-> FALSE, score |-> 0]

\* A dispatch starts with nothing emitted and nothing caught.
Fresh(S) ==
    [S EXCEPT !.out = <<>>, !.published = <<>>, !.logged = <<>>, !.exc = "",
              !.det = NoDetect, !.reached = "parse", !.analysed = FALSE]

Raise(S, e) == [S EXCEPT !.exc = e]

(***************************************************************************)
(* The two sinks of an alert (lines 288-289 and the like):                 *)
(*     c.publish(ALERT_TOPIC, json.dumps(alert)); log_alert(alert)         *)
(* publish on a disconnected client returns an error code and drops the    *)
(* message; log_alert raises OSError when the file cannot be appended to.  *)
(* env.connected and env.log_ok are the state of the two sinks.            *)
(***************************************************************************)
\* A line of the log: the file it was appended to and the alert written.
Line(path, alert) == [file |-> path, line |-> alert]

log_alert(S, alert, env) ==
    IF env.log_ok
    THEN [S EXCEPT !.logged = Append(S.logged, Line(S.alerts_path, alert))]
    ELSE Raise(S, "OSError")

Sinks(S, alert, env) ==
    LET S1 == [S EXCEPT !.out = Append(S.out, alert),
                        !.published = IF env.connected
                                      THEN Append(S.published, alert)
                                      ELSE S.published]
    IN  log_alert(S1, alert, env)

(***************************************************************************)
(* on_message, lines 270-299: the loop over ("voltage", "current").        *)
(***************************************************************************)
\* z * z, for z = abs(val - s.mean) / st
ZSquared(s, val) ==
    LET dv == RSub(val, s.mean)
    IN  RDiv(RMul(dv, dv), Variance(s))

\* The same test with the count compared against 21.
AnomalyTestLate(s, val) ==
    /\ s.n > MIN_N_ANOMALY + 1
    /\ StdAboveEps(Variance(s))
    /\ RLe(FromInt(Z_THRESHOLD * Z_THRESHOLD), ZSquared(s, val))

\* s.n > 20 and st > 1e-9 and z >= 3.0
AnomalyTest(s, val) ==
    /\ s.n > MIN_N_ANOMALY
    /\ StdAboveEps(Variance(s))
    /\ RLe(FromInt(Z_THRESHOLD * Z_THRESHOLD), ZSquared(s, val))

\* s.n > 30 and abs(sl) > 0.002
SLOPE_THRESHOLD == <<1, 500>>

DriftTest(s) ==
    /\ s.n > MIN_N_DRIFT
    /\ RLt(SLOPE_THRESHOLD, RAbs(slope(s)))

\* correlation_analyzer.add_data_point (lines 188-193): correlation_data is a
\* defaultdict of defaultdicts of lists; both keep the order in which keys
\* were first used.  It is modelled as a sequence of [device, metrics], metrics
\* a sequence of [metric, data].
RECURSIVE IndexOf(_, _, _)
IndexOf(seq, key, i) ==
    IF i > Len(seq) THEN 0
    ELSE IF seq[i].key = key THEN i
    ELSE IndexOf(seq, key, i + 1)

\* od[key], creating the default entry at the end when key is new
Touch(od, key, default) ==
    IF IndexOf(od, key, 1) = 0 THEN Append(od, [key |-> key, val |-> default]) ELSE od

add_data_point(cd, device, metric, value, timestamp) ==
    LET cd1 == Touch(cd, device, <<>>)
        i   == IndexOf(cd1, device, 1)
        ms1 == Touch(cd1[i].val, metric, <<>>)
        j   == IndexOf(ms1, metric, 1)
        ms2 == [ms1 EXCEPT ![j].val =
                    Append(@, [value |-> value, timestamp |-> timestamp])]
    IN  [cd1 EXCEPT ![i].val = ms2]

\* The alert of lines 284-287; d["ts"] raises KeyError when ts is missing.
StatAlert(d, dev, key, val, s) ==
    [type |-> "statistical_anomaly", ts |-> d.ts, device |-> dev, metric |-> key,
     value |-> val, mean |-> s.mean, var |-> Variance(s), zsq |-> ZSquared(s, val)]

\* The alert of lines 294-297.
DriftAlert(d, dev, key, s) ==
    [type |-> "drift", ts |-> d.ts, device |-> dev, metric |-> key,
     slope |-> slope(s), ema |-> s.ema[1]]

\* Build an alert and hand it to the sinks, unless something raised before.
Emit(S, d, alert, env) ==
    IF S.exc # "" THEN S
    ELSE IF ~d.has_ts THEN Raise(S, "KeyError")
    ELSE Sinks(S, alert, env)

\* One turn of the loop body for `key' (lines 271-299).
\* Lines 292-299: the drift test, after the anomaly test left the state S.
DriftStep(S, d, dev, key, s, env) ==
    IF S.exc = "" /\ DriftTest(s)
    THEN Emit(S, d, DriftAlert(d, dev, key, s), env)
    ELSE S

\* Lines 281-289: the anomaly test on the tracker s, already updated with val.
AnomalyStep(S, d, dev, key, val, s, env) ==
    IF AnomalyTest(s, val)
    THEN Emit(S, d, StatAlert(d, dev, key, val, s), env)
    ELSE S

\* Lines 277-299, after s.update(val) gave u.
AfterUpdate(S, d, dev, key, val, u, env) ==
    IF u.exc # "" THEN [S EXCEPT !.stats[dev][key] = u.s, !.exc = u.exc]
    ELSE DriftStep(
           AnomalyStep(
             [S EXCEPT !.stats[dev][key] = u.s,
                       !.correlation_data =
                           add_data_point(@, dev, key, val.v,
                                          IF d.has_ts THEN d.ts ELSE env.now)],
             d, dev, key, val.v, u.s, env),
           d, dev, key, u.s, env)

\* One turn of the loop body for `key' (lines 271-299).
MetricStep(S, d, key, env) ==
    IF S.exc # "" \/ Get(d, key).t = "absent" THEN S
    ELSE AfterUpdate(S, d, DeviceOf(d), key, Get(d, key),
                     update(S.stats[DeviceOf(d)][key], Get(d, key)), env)

StatsStage(S, d, env) ==
    LET S0 == [S EXCEPT !.reached = "stats"]
    IN  MetricStep(MetricStep(S0, d, METRICS[1], env), d, METRICS[2], env)


(***************************************************************************)
(* class IntelligentAnomalyDetector                                        *)
(***************************************************************************)
\* hash(device) % 1000: some fixed value per device name within one process.
DeviceHash(dev) ==
    CASE dev = "scope1" -> 417
      [] dev = "psu" -> 58
      [] dev = "multimeter" -> 266
      [] dev = "power_supply" -> 731
      [] OTHER -> 903

\* extract_features (lines 57-86).  Nothing in on_message adds the keys
\* voltage_avg / voltage_std / current_avg / current_std, so the defaults of
\* data_point.get apply.
extract_features(d, env) ==
    LET ts == IF d.has_ts THEN d.ts ELSE env.now
        fv == IF d.voltage.t # "absent"
              THEN <<d.voltage.v, d.voltage.v, Zero>> ELSE <<>>
        fc == IF d.current.t # "absent"
              THEN <<d.current.v, d.current.v, Zero>> ELSE <<>>
    IN  fv \o fc \o <<FromInt(ts % DAY_SECONDS), FromInt(ts % HOUR_SECONDS),
                      FromInt(DeviceHash(DeviceOf(d)) % HASH_MOD)>>

\* np.array(list(self.feature_buffer)) followed by scaler.fit_transform needs
\* rows of one length; rows of different lengths raise ValueError.
Ragged(buf) == \E i, j \in 1..Len(buf) : Len(buf[i]) # Len(buf[j])

\* _train_model (lines 114-123), called with the detector's fields.
\* Returns the fields after it and the exception it raised.
train_model(S) ==
    IF Len(S.feature_buffer) < WARMUP THEN S
    ELSE IF Ragged(S.feature_buffer) THEN Raise(S, "ValueError")
    ELSE [S EXCEPT !.is_fitted = TRUE,
                   !.n_features_in = Len(S.feature_buffer[1]),
                   !.det.trained = TRUE]

\* len(self.feature_buffer) >= 50 and not self.is_fitted       (line 99)
ShouldTrain(buf, fitted) == Len(buf) >= WARMUP /\ ~fitted

\* detect_anomaly (lines 88-112).  env.is_outlier and env.score are what the
\* fitted isolation forest answers for this vector.
detect_anomaly(S, d, env) ==
    LET features == extract_features(d, env)
        S0 == [S EXCEPT !.det.called = TRUE]
    IN  IF Len(features) = 0 THEN [S0 EXCEPT !.det.returned = TRUE]
        ELSE
          LET S1 == [S0 EXCEPT !.feature_buffer =
                        DequeAppend(@, features, BUFFER_MAXLEN)]
              S2 == IF ShouldTrain(S1.feature_buffer, S1.is_fitted)
                    THEN train_model(S1) ELSE S1
          IN  IF S2.exc # "" THEN S2
              ELSE IF S2.is_fitted
              THEN IF Len(features) # S2.n_features_in
                   THEN Raise(S2, "ValueError")     \* scaler.transform
                   ELSE [S2 EXCEPT !.det.returned = TRUE,
                                   !.det.consulted = TRUE,
                                   !.det.is_anomaly = env.is_outlier,
                                   !.det.score = env.score]
              ELSE [S2 EXCEPT !.det.returned = TRUE]

\* on_message, lines 301-310.
AiAlert(d, dev, score) ==
    [type |-> "ai_anomaly", ts |-> d.ts, device |-> dev, score |-> score]

AiStage(S, d, env) ==
    LET S1 == detect_anomaly([S EXCEPT !.reached = "ai"], d, env)
    IN  IF S1.exc = "" /\ S1.det.is_anomaly
        THEN Emit(S1, d, AiAlert(d, DeviceOf(d), S1.det.score), env)
        ELSE S1

(***************************************************************************)
(* class PredictiveMaintenance.  drift_rate and failure_probability are    *)
(* counts of MICRO-ths.                                                    *)
(***************************************************************************)
NewHealth ==
    [drift_rate |-> 0, last_calibration |-> None, failure_probability |-> 0,
     recommendations |-> <<>>]

\* self.calibration_intervals.get(device, default)      (lines 135-140, 173)
CalInterval(device) ==
    CASE device = "scope1" -> SCOPE1_CAL_INTERVAL
      [] device = "multimeter" -> MULTIMETER_CAL_INTERVAL
      [] device = "power_supply" -> POWER_SUPPLY_CAL_INTERVAL
      [] OTHER -> DEFAULT_CAL_INTERVAL

\* A ceiling that is never applied.
NoCeiling(a, b) == b

Min(a, b) == IF a < b THEN a ELSE b
Max(a, b) == IF a > b THEN a ELSE b

\* 0.9 * drift_rate + 0.1 * abs(slope), slope = (hist[-1] - hist[0]) / (len - 1)
DriftRateStep(dr, s) ==
    IF Len(s.hist) < 2 THEN (9 * dr) \div 10
    ELSE LET den == Len(s.hist) - 1
             num == Abs(s.hist[Len(s.hist)] - s.hist[1])
         IN  (9 * dr * den + num) \div (10 * den)

\* _generate_recommendations (lines 162-178)
generate_recommendations(device, health, now) ==
    LET since == now - (IF health.last_calibration = None THEN 0
                        ELSE health.last_calibration[1])
        interval == CalInterval(device)
    IN  (IF health.failure_probability > 7 * (MICRO \div 10)
         THEN <<[text |-> "High failure risk", days |-> 0]>> ELSE <<>>)
        \o (IF health.drift_rate > 5 * (MICRO \div 1000)
            THEN <<[text |-> "Significant drift", days |-> 0]>> ELSE <<>>)
        \o (IF since > interval * DAY_SECONDS
            THEN <<[text |-> "Calibration overdue",
                    days |-> (since \div DAY_SECONDS) - interval]>>
            ELSE <<>>)

\* update_health (lines 142-160)
update_health(health, device, d, st, now) ==
    LET dr == IF d.voltage.t # "absent" /\ st["voltage"].n > MIN_N_HEALTH
              THEN DriftRateStep(health.drift_rate, st["voltage"])
              ELSE health.drift_rate
        fp == IF dr > MICRO \div 100
              THEN Min(9 * (MICRO \div 10), health.failure_probability + MICRO \div 100)
              ELSE Max(0, health.failure_probability - MICRO \div 200)
        h1 == [health EXCEPT !.drift_rate = dr, !.failure_probability = fp]
    IN  [h1 EXCEPT !.recommendations = generate_recommendations(device, h1, now)]

\* on_message, lines 312-322.
HealthAlert(d, dev, h) ==
    [type |-> "maintenance_recommendation", ts |-> d.ts, device |-> dev,
     health_score |-> MICRO - h.failure_probability,
     recommendations |-> h.recommendations]

HealthStage(S, d, env) ==
    LET dev == DeviceOf(d)
        h   == update_health(S.device_health[dev], dev, d, S.stats[dev], env.now)
        S1  == [S EXCEPT !.reached = "health", !.device_health[dev] = h]
    IN  IF h.recommendations # <<>>
        THEN Emit(S1, d, HealthAlert(d, dev, h), env)
        ELSE S1


(***************************************************************************)
(* class CrossInstrumentCorrelator.  A correlation coefficient is carried  *)
(* as its sign and its square; nan is what np.corrcoef gives for a series  *)
(* of zero variance.                                                       *)
(***************************************************************************)
Corr(sign, sq) == [nan |-> FALSE, sign |-> sign, sq |-> sq]
CorrZero == Corr(0, Zero)
CorrNaN == [nan |-> TRUE, sign |-> 0, sq |-> Zero]

CORRELATION_THRESHOLD == <<7, 10>>
STRONG_THRESHOLD == <<8, 10>>

\* abs(corr) > t.  A comparison with nan is False.
AbsAbove(corr, t) == ~corr.nan /\ RLt(RMul(t, t), corr.sq)

RECURSIVE SumOver(_, _, _, _)
\* sum over k in i..Len(xs) of xs[k] * ys[k]
SumOver(xs, ys, i, acc) ==
    IF i > Len(xs) THEN acc
    ELSE SumOver(xs, ys, i + 1, RAdd(acc, RMul(xs[i], ys[i])))

Ones(n) == [k \in 1..n |-> FromInt(1)]

Sign(x) == IF x > 0 THEN 1 ELSE IF x < 0 THEN -1 ELSE 0

\* np.corrcoef(values1, values2)[0, 1] for two lists of one length
PearsonOfMoments(cov, vx, vy) ==
    IF vx[1] = 0 \/ vy[1] = 0 THEN CorrNaN
    ELSE Corr(Sign(cov[1]), RDiv(RMul(cov, cov), RMul(vx, vy)))

PearsonOfSums(m, sx, sy, sxx, syy, sxy) ==
    PearsonOfMoments(RSub(RMul(m, sxy), RMul(sx, sy)),
                     RSub(RMul(m, sxx), RMul(sx, sx)),
                     RSub(RMul(m, syy), RMul(sy, sy)))

Pearson(xs, ys) ==
    PearsonOfSums(FromInt(Len(xs)),
                  SumOver(xs, Ones(Len(xs)), 1, Zero),
                  SumOver(ys, Ones(Len(ys)), 1, Zero),
                  SumOver(xs, xs, 1, Zero),
                  SumOver(ys, ys, 1, Zero),
                  SumOver(xs, ys, 1, Zero))

\* data[-k:]
LastK(seq, k) ==
    IF Len(seq) <= k THEN seq ELSE SubSeq(seq, Len(seq) - k + 1, Len(seq))

ValuesOf(data) == [k \in 1..Len(data) |-> data[k].value]

\* _calculate_correlation (lines 218-236), on the two lists of points
calculate_correlation(data1, data2) ==
    IF Len(data1) < MIN_CORR_POINTS \/ Len(data2) < MIN_CORR_POINTS THEN CorrZero
    ELSE LET values1 == ValuesOf(LastK(data1, CORR_TAIL))
             values2 == ValuesOf(LastK(data2, CORR_TAIL))
         IN  IF Len(values1) # Len(values2) THEN CorrZero
             ELSE Pearson(values1, values2)

\* The entry appended at lines 206-213, or nothing.
EntryIfSignificant(dev1, m1, dev2, m2, corr) ==
    IF AbsAbove(corr, CORRELATION_THRESHOLD)
    THEN <<[device1 |-> dev1, metric1 |-> m1.key, device2 |-> dev2,
            metric2 |-> m2.key, correlation |-> corr,
            strength |-> IF AbsAbove(corr, STRONG_THRESHOLD)
                         THEN "strong" ELSE "moderate"]>>
    ELSE <<>>

CorrEntry(dev1, m1, dev2, m2) ==
    EntryIfSignificant(dev1, m1, dev2, m2, calculate_correlation(m1.val, m2.val))

RECURSIVE Concat(_, _, _)
\* f[1] \o f[2] \o ... \o f[n]
Concat(f, i, n) == IF i > n THEN <<>> ELSE f[i] \o Concat(f, i + 1, n)

\* analyze_correlations (lines 195-216): the four nested loops, in order.
analyze_correlations(cd) ==
    LET n == Len(cd)
        ForMetric2(i, j, a) ==
            Concat([b \in 1..Len(cd[j].val) |->
                       CorrEntry(cd[i].key, cd[i].val[a], cd[j].key, cd[j].val[b])],
                   1, Len(cd[j].val))
        ForMetric1(i, j) ==
            Concat([a \in 1..Len(cd[i].val) |-> ForMetric2(i, j, a)],
                   1, Len(cd[i].val))
        ForDev2(i) ==
            Concat([j \in 1..n |-> IF j > i THEN ForMetric1(i, j) ELSE <<>>], 1, n)
    IN  Concat([i \in 1..n |-> ForDev2(i)], 1, n)

\* sum(len(correlation_data[d][m]) for d in ... for m in ...)    (line 325)
RECURSIVE SumLens(_, _)
SumLens(ms, k) == IF k > Len(ms) THEN 0 ELSE Len(ms[k].val) + SumLens(ms, k + 1)

RECURSIVE TotalFrom(_, _)
TotalFrom(cd, i) ==
    IF i > Len(cd) THEN 0 ELSE SumLens(cd[i].val, 1) + TotalFrom(cd, i + 1)

TotalSamples(cd) == TotalFrom(cd, 1)

\* correlations[:5]
FirstK(seq, k) == IF Len(seq) <= k THEN seq ELSE SubSeq(seq, 1, k)

CorrAlert(d, correlations) ==
    [type |-> "correlation_discovery", ts |-> d.ts,
     correlations |-> FirstK(correlations, TOP_CORRELATIONS)]

\* total % 100 == 0                                              (line 325)
AnalysisDue(total) == total % CORR_PERIOD = 0

\* on_message, lines 324-334.
\* Lines 327-334, with the list analyze_correlations returned.
Discovered(S, d, env, correlations) ==
    IF correlations # <<>>
    THEN Emit([S EXCEPT !.significant_correlations = correlations],
              d, CorrAlert(d, correlations), env)
    ELSE [S EXCEPT !.significant_correlations = correlations]

CorrStage(S, d, env) ==
    IF AnalysisDue(TotalSamples(S.correlation_data))
    THEN Discovered([S EXCEPT !.reached = "correlation", !.analysed = TRUE], d, env,
                    analyze_correlations(S.correlation_data))
    ELSE [S EXCEPT !.reached = "correlation"]

(***************************************************************************)
(* on_message (lines 253-338).  A payload is                               *)
(*   "bytes"   not UTF-8: decode raises UnicodeDecodeError;                *)
(*   "json"    text json.loads accepts;                                    *)
(*   "python"  text json.loads rejects and eval accepts (a Python literal, *)
(*             such as a dict printed with single quotes);                 *)
(*   "garbage" text both reject.                                           *)
(* is_dict tells whether the decoded value is a dict; d is the dict.       *)
(***************************************************************************)
Payload(kind, isDict, d) == [kind |-> kind, is_dict |-> isDict, d |-> d]

\* Lines 255-265: the payload's decoded value, when there is one.
Parses(p) == p.kind \in {"json", "python"}

\* Lines 254-267: decode, json.loads, the eval fallback, d.get("device").
ParseStage(S, p, env) ==
    IF p.kind = "bytes" THEN Raise(S, "UnicodeDecodeError")
    ELSE IF ~Parses(p) THEN [S EXCEPT !.reached = "dropped"]   \* line 265
    ELSE IF ~p.is_dict THEN Raise(S, "AttributeError")          \* d.get
    ELSE S

STAGES == <<"parse", "stats", "ai", "health", "correlation">>

Stage(name, S, p, env) ==
    CASE name = "parse" -> ParseStage(S, p, env)
      [] name = "stats" -> StatsStage(S, p.d, env)
      [] name = "ai" -> AiStage(S, p.d, env)
      [] name = "health" -> HealthStage(S, p.d, env)
      [] name = "correlation" -> CorrStage(S, p.d, env)

\* The body goes on to its next statement unless it returned (line 265) or
\* raised: every exception it raises is an Exception, caught at line 336.
GoesOn(S) == S.exc = "" /\ S.reached # "dropped"

RECURSIVE RunFrom(_, _, _, _)
\* The rest of the body after step i left the state S1.
AndThen(S1, p, env, i) == IF GoesOn(S1) THEN RunFrom(S1, p, env, i + 1) ELSE S1

RunFrom(S, p, env, i) ==
    IF i > Len(STAGES) THEN S ELSE AndThen(Stage(STAGES[i], S, p, env), p, env, i)

on_message(S, p, env) == RunFrom(Fresh(S), p, env, 1)

(***************************************************************************)
(* The traffic.  A run carries a regular stream of well-formed records,    *)
(* described by `plan', in which at most MaxOdd irregularities occur: a    *)
(* payload that is not a well-formed record, or a sink that fails.         *)
(***************************************************************************)
Ts(k) == Ts0 + k
Clock(k) == Now0 + k

\* time.strftime("%Y-%m-%d"): the calendar day of a clock reading    (line 15)
Day(t) == t \div DAY_SECONDS

V(n, d) == Num(Norm(n, d))

\* Four instruments reporting in turn, one record a tick.
ROUND == <<"scope1", "psu", "multimeter", "power_supply">>

\* The j-th reading of a current that follows the voltage unevenly.
Wave(j) == j + 6 * (j % 2)

\* The record of tick k in a round: the instrument whose turn it is sends its
\* j-th sample, a voltage of j volts (every second instrument pl.step * j) and
\* a current of pl.cur + pl.jump * Wave(j).
RoundRecord(pl, k, i, j) ==
    Rec(ROUND[i], TRUE, Ts(k),
        V((IF i % 2 = 0 THEN pl.step ELSE 1) * j, 1),
        Num(RAdd(pl.cur.v, RMul(pl.jump.v, FromInt(Wave(j))))))

\* The regular records the plan allows at tick k.
RegularRecords(pl, k) ==
    CASE pl.name = "free" ->
           {Rec(dev, TRUE, Ts(k), v, V(3, 25)) :
               dev \in {"scope1", "psu"}, v \in {V(33, 10), V(4, 1)}}
      [] pl.name = "jump" ->
           {Rec(pl.dev, TRUE, Ts(k), IF k = JumpTick THEN pl.jump ELSE pl.base, pl.cur)}
      [] pl.name \in {"const", "loop"} ->
           {Rec(pl.dev, TRUE, Ts(k), pl.base, pl.cur)}
      [] pl.name \in {"ramp", "climb"} ->
           {Rec(pl.dev, TRUE, Ts(k), V(pl.step * k, 100), pl.cur)}
      [] pl.name = "round" ->
           {RoundRecord(pl, k, ((k - 1) % Len(ROUND)) + 1, ((k - 1) \div Len(ROUND)) + 1)}
      [] pl.name = "unit" ->
           {Rec(pl.dev, TRUE, Ts(k),
                IF k <= MIN_N_ANOMALY THEN (IF k % 2 = 1 THEN V(1, 1) ELSE V(-1, 1))
                ELSE IF k = MIN_N_ANOMALY + 1 THEN V(0, 1)
                ELSE V(Z_THRESHOLD, 1),
                pl.cur)}

\* Records that are not well-formed, derived from a regular one.
Malformed(r) ==
    {[r EXCEPT !.has_ts = FALSE, !.ts = 0],
     [r EXCEPT !.device = NoDevice],
     [r EXCEPT !.current = Absent],
     [r EXCEPT !.voltage = Absent],
     [r EXCEPT !.voltage = Absent, !.current = Absent],
     [r EXCEPT !.voltage = Str],
     [r EXCEPT !.current = Str]}

IrregularPayloads(r) ==
    {Payload("bytes", FALSE, r), Payload("garbage", FALSE, r),
     Payload("json", FALSE, r), Payload("python", FALSE, r),
     Payload("python", TRUE, r)}
    \cup {Payload("json", TRUE, m) : m \in Malformed(r)}

IsRegular(p) ==
    /\ p.kind = "json" /\ p.is_dict
    /\ p.d.device # NoDevice /\ p.d.has_ts
    /\ p.d.voltage.t = "num" /\ p.d.current.t = "num"

Payloads(pl, k, budget) ==
    LET regs == RegularRecords(pl, k)
    IN  {Payload("json", TRUE, r) : r \in regs}
        \cup (IF budget > 0 /\ k \in pl.odd_ticks /\ ~pl.strict
              THEN UNION {IrregularPayloads(r) : r \in regs} ELSE {})

\* What the isolation forest answers, and the state of the two sinks.
Env(k, outlier, connected, logOk) ==
    [now |-> Clock(k), is_outlier |-> outlier,
     score |-> IF outlier THEN -6 * (MICRO \div 10) ELSE -4 * (MICRO \div 10),
     connected |-> connected, log_ok |-> logOk]

\* The states a sink can be in at tick k: in a long climb the sinks are up
\* except at the ticks the plan names.
SinkStates(pl, k) ==
    IF (pl.name \in {"climb", "round"} \/ (pl.name = "loop" /\ pl.strict))
       /\ k \notin pl.odd_ticks
    THEN {TRUE} ELSE BOOLEAN

Envs(pl, k, budget) ==
    {Env(k, o, c, l) : o \in (IF pl.name = "loop" THEN {FALSE} ELSE BOOLEAN),
                       c \in SinkStates(pl, k), l \in SinkStates(pl, k)}

Cost(p, env) ==
    (IF IsRegular(p) THEN 0 ELSE 1) + (IF env.connected /\ env.log_ok THEN 0 ELSE 1)

NoMsg ==
    [p |-> Payload("none", FALSE, Rec(NoDevice, FALSE, 0, Absent, Absent)),
     env |-> Env(0, FALSE, TRUE, TRUE)]

\* The device names sidecars are onboarded under, and the absent entry of
\* the registry.
SIDECARS == {"scope1", "psu"}
NoProc == 0

(***************************************************************************)
(* Initial state: the module-level constructions of lines 239-243.         *)
(***************************************************************************)
InitProgram ==
    /\ stats = [dev \in DEVICES |->
                   [m \in {"voltage", "current"} |-> NewOnlineStats]]
    /\ feature_buffer = <<>>
    /\ is_fitted = FALSE
    /\ n_features_in = 0
    /\ device_health = [dev \in DEVICES |-> NewHealth]
    /\ correlation_data = <<>>
    /\ significant_correlations = <<>>
    /\ out = <<>>
    /\ published = <<>>
    /\ logged = <<>>
    /\ exc = ""
    /\ det = NoDetect
    /\ reached = "none"
    /\ analysed = FALSE
    /\ alerts_path = Day(Clock(0))
    /\ msg = NoMsg
    /\ tick = 0
    /\ odd = 0
    /\ inbox = <<>>
    /\ active = <<>>
    /\ steps = <<>>
    /\ started = [name \in SIDECARS |-> NoProc]
    /\ registry_lock = 0
    /\ procs = <<>>
    /\ calls = <<>>

Plan(name, dev, base, jump, cur, step, len, oddTicks, strict) ==
    [name |-> name, dev |-> dev, base |-> base, jump |-> jump, cur |-> cur,
     step |-> step, len |-> len, odd_ticks |-> oddTicks, strict |-> strict]

FreePlans ==
    {Plan("free", "scope1", V(0, 1), V(0, 1), V(0, 1), 0, MaxFree, 1..MaxFree, FALSE)}

JumpPlans(strict) ==
    {Plan("jump", dev, base, jump, cur, 0, E2ETicks,
          (JumpTick - 1)..(JumpTick + 1), strict) :
        dev \in {"scope1", "psu"}, base \in {V(33, 10), V(0, 1)},
        jump \in {V(4, 1), V(-7, 2)}, cur \in {V(3, 25)}}

(***************************************************************************)
(* The dispatch of one payload: paho's network loop calls on_message and   *)
(* waits for it to return.                                                 *)
(***************************************************************************)
Deliver(p, env) ==
    /\ Commit(on_message(State, p, env))
    /\ msg' = [p |-> p, env |-> env]
    /\ tick' = tick + 1
    /\ odd' = odd + Cost(p, env)
    /\ UNCHANGED <<plan, inbox, active, steps>>

Dispatch ==
    /\ tick < plan.len
    /\ \E p \in Payloads(plan, tick + 1, MaxOdd - odd) :
         \E env \in Envs(plan, tick + 1, MaxOdd - odd) :
            /\ odd + Cost(p, env) <= MaxOdd
            /\ Deliver(p, env)

Next == Dispatch

\* A flat stream long enough to warm the detector up; whole volts and amperes
\* keep the fractions of the trackers small.
ConstPlans ==
    {Plan("const", dev, V(3, 1), V(0, 1), V(1, 1), 0, WARMUP + TailTicks,
          {1} \cup ((WARMUP - 1)..(WARMUP + 2)), FALSE) :
        dev \in {"scope1", "psu"}}

RampPlans ==
    {Plan("ramp", dev, V(0, 1), V(0, 1), V(3, 25), step, MIN_N_DRIFT + TailTicks,
          (MIN_N_DRIFT + 1)..(MIN_N_DRIFT + 2), FALSE) :
        dev \in {"scope1"}, step \in {1, -1}}

UnitPlans ==
    {Plan("unit", dev, V(0, 1), V(0, 1), V(3, 25), 0, MIN_N_ANOMALY + 2, {}, TRUE) :
        dev \in {"scope1", "psu"}}

InitFree == InitProgram /\ plan \in FreePlans
SpecFree == InitFree /\ [][Next]_vars

InitE2E == InitProgram /\ plan \in JumpPlans(TRUE)
SpecE2E == InitE2E /\ [][Next]_vars

InitJump == InitProgram /\ plan \in JumpPlans(FALSE)
SpecJump == InitJump /\ [][Next]_vars


InitWarm == InitProgram /\ plan \in ConstPlans
SpecWarm == InitWarm /\ [][Next]_vars

InitRamp == InitProgram /\ plan \in RampPlans
SpecRamp == InitRamp /\ [][Next]_vars

InitUnit == InitProgram /\ plan \in UnitPlans
SpecUnit == InitUnit /\ [][Next]_vars

\* Well-formed ramps long enough for failure_probability to climb from 0.0
\* to its ceiling: one volt a tick up or down, and a slow one under which
\* drift_rate stays low.
HealthPlans ==
    {Plan("climb", dev, V(0, 1), V(0, 1), V(1, 1), step, HealthTicks,
          ((MIN_N_HEALTH + 1)..(MIN_N_HEALTH + 2))
              \cup ((HealthTicks - 3)..(HealthTicks - 2)), TRUE) :
        dev \in {"scope1", "psu"}, step \in {100, -100, 1}}

InitHealth == InitProgram /\ plan \in HealthPlans
SpecHealth == InitHealth /\ [][Next]_vars

\* Four instruments in turn until the series hold 100 samples between them and
\* a little longer: with equal or opposite voltages, and with a current that
\* is constant or follows the voltage.
RoundPlans ==
    {Plan("round", "scope1", V(0, 1), amp, V(1, 1), step, RoundTicks,
          (RoundTicks - 3)..(RoundTicks - 1), TRUE) :
        step \in {1, -1}, amp \in {V(0, 1), V(1, 1)}}

\* A steep ramp, one volt a tick, just long enough for the health of the
\* device to start moving, with room for an odd record after that.
SteepPlans ==
    {Plan("ramp", dev, V(0, 1), V(0, 1), V(1, 1), step, MIN_N_HEALTH + TailTicks,
          (MIN_N_HEALTH + 2)..(MIN_N_HEALTH + 3), FALSE) :
        dev \in {"scope1", "psu"}, step \in {100, -100}}

InitSteep == InitProgram /\ plan \in SteepPlans
SpecSteep == InitSteep /\ [][Next]_vars

InitRound == InitProgram /\ plan \in RoundPlans
SpecRound == InitRound /\ [][Next]_vars


(***************************************************************************)
(* The same handler step by step, under paho's network loop                *)
(* (client.loop_forever(), line 345): packets arrive on the socket at any  *)
(* time; the loop thread takes the oldest one and calls on_message, and    *)
(* reads the next packet only when the callback has returned.              *)
(***************************************************************************)
LoopPlans ==
    {Plan("loop", "scope1", V(33, 10), V(0, 1), V(3, 25), 0, MaxLoopMsgs,
          1..MaxLoopMsgs, FALSE)}

\* A packet is received while the handler may be running.
Arrive ==
    /\ tick < plan.len
    /\ \E p \in Payloads(plan, tick + 1, MaxOdd - odd) :
         \E env \in Envs(plan, tick + 1, MaxOdd - odd) :
            /\ odd + Cost(p, env) <= MaxOdd
            /\ inbox' = Append(inbox, [id |-> tick + 1, p |-> p, env |-> env])
            /\ odd' = odd + Cost(p, env)
    /\ tick' = tick + 1
    /\ UNCHANGED <<stats, feature_buffer, is_fitted, n_features_in, device_health,
                   correlation_data, significant_correlations, out, published,
                   logged, exc, det, reached, analysed, alerts_path, msg, plan,
                   active, steps>>
    /\ UNCHANGED apiVars

\* A loop that hands every packet to a thread of its own is always ready.
LoopIdleThreaded == TRUE

\* The loop thread is not inside a callback.
LoopIdle == active = <<>>

\* on_message is entered for the oldest packet.
Begin ==
    /\ LoopIdle
    /\ inbox # <<>>
    /\ active' = Append(active, [id |-> Head(inbox).id, pc |-> 1])
    /\ inbox' = Tail(inbox)
    /\ msg' = [p |-> Head(inbox).p, env |-> Head(inbox).env]
    /\ Commit(Fresh(State))
    /\ UNCHANGED <<tick, plan, odd, steps>>

\* The dispatch active[i] executes its next step.
StepTo(i, S1) ==
    /\ Commit(S1)
    /\ active' = [active EXCEPT ![i].pc =
                     IF GoesOn(S1) THEN @ + 1 ELSE Len(STAGES) + 1]

Advance(i) ==
    /\ active[i].pc <= Len(STAGES)
    /\ StepTo(i, Stage(STAGES[active[i].pc], State, msg.p, msg.env))
    /\ steps' = Append(steps, active[i].id)
    /\ UNCHANGED <<msg, tick, plan, odd, inbox>>

\* on_message returns to the loop.
Return(i) ==
    /\ active[i].pc > Len(STAGES)
    /\ active' = [k \in 1..(Len(active) - 1) |->
                     IF k < i THEN active[k] ELSE active[k + 1]]
    /\ UNCHANGED <<stats, feature_buffer, is_fitted, n_features_in, device_health,
                   correlation_data, significant_correlations, out, published,
                   logged, exc, det, reached, analysed, alerts_path, msg, tick,
                   plan, odd, inbox, steps>>
    /\ UNCHANGED apiVars

NextLoop ==
    \/ Arrive
    \/ Begin
    \/ \E i \in 1..Len(active) : Advance(i)
    \/ \E i \in 1..Len(active) : Return(i)

(***************************************************************************)
(* The generic sidecar (src/sidecars/generic_sidecar.py) with the demo     *)
(* driver (src/drivers/demo/random_meter.py): every turn of its loop polls *)
(* the driver and publishes json.dumps(data) on lab/device/{name}/         *)
(* telemetry, where the analyzer receives it.  plan.dev is the configured  *)
(* name, cfg["name"].                                                      *)
(***************************************************************************)
\* Driver.poll (random_meter.py lines 14-24): idn, voltage, current, ts and
\* units; 3.3 +- 0.2 volts and 0.12 +- 0.03 amperes.  There is no device key.
PollVolts == {V(31, 10), V(33, 10), V(7, 2)}
PollAmps == {V(3, 25), V(3, 20)}

poll(k, v, i) == Rec(NoDevice, TRUE, Ts(k), v, i)

\* client.publish(topic, payload=json.dumps(data))      (sidecar lines 29-31)
SidecarPayload(data) == Payload("json", TRUE, data)

SidecarPlans ==
    {Plan("sidecar", dev, V(0, 1), V(0, 1), V(0, 1), 0, MaxPolls, {}, TRUE) :
        dev \in {"scope1", "psu"}}

\* One turn of the sidecar's loop, and the analyzer's dispatch of what it
\* published.
SidecarPublish ==
    /\ tick < plan.len
    /\ \E v \in PollVolts : \E i \in PollAmps : \E o \in BOOLEAN :
          Deliver(SidecarPayload(poll(tick + 1, v, i)), Env(tick + 1, o, TRUE, TRUE))

NextSidecar == SidecarPublish

InitSidecar == InitProgram /\ plan \in SidecarPlans
SpecSidecar == InitSidecar /\ [][NextSidecar]_vars

InitLoop == InitProgram /\ plan \in LoopPlans
SpecLoop == InitLoop /\ [][NextLoop]_vars

\* The same loop under a flat stream long enough for the detector to be
\* fitted, from either of two devices.
FitLoopPlans ==
    {Plan("loop", dev, V(3, 1), V(0, 1), V(1, 1), 0, WARMUP + 1, {}, TRUE) :
        dev \in {"scope1", "psu"}}

InitFitLoop == InitProgram /\ plan \in FitLoopPlans
SpecFitLoop == InitFitLoop /\ [][NextLoop]_vars


(***************************************************************************)
(* The API process (src/hub/api.py): POST /onboard and POST /devices/stop  *)
(* are plain `def' endpoints, which FastAPI runs on worker threads, so     *)
(* requests are served concurrently.  A process is "running" from Popen,   *)
(* "signalled" once SIGTERM was sent to it and "exited" when it is gone;   *)
(* Popen.poll() is None for the first two.                                 *)
(***************************************************************************)
Alive(pid) == procs[pid].state # "exited"

\* A request arrives and a worker thread starts serving it: onboard writes
\* the config and calls _launch_sidecar (lines 193-198), stop_device calls
\* _stop_sidecar (lines 206-208).
Request ==
    /\ Len(calls) < MaxRequests
    /\ \E op \in {"launch", "stop"} : \E name \in SIDECARS :
          calls' = Append(calls, [op |-> op, name |-> name, pc |-> "lock",
                                  ok |-> FALSE])
    /\ UNCHANGED <<started, registry_lock, procs>>
    /\ UNCHANGED hubVars

\* with _registry_lock:                                   (lines 68 and 79)
Acquire(t) ==
    /\ calls[t].pc = "lock"
    /\ registry_lock = 0
    /\ registry_lock' = t
    /\ calls' = [calls EXCEPT ![t].pc = "body"]
    /\ UNCHANGED <<started, procs>>
    /\ UNCHANGED hubVars

\* _launch_sidecar, lines 69-76, holding the lock.
LaunchBody(t) ==
    /\ calls[t].pc = "body" /\ calls[t].op = "launch"
    /\ IF started[calls[t].name] # NoProc /\ Alive(started[calls[t].name])
       THEN UNCHANGED <<started, procs>>
       ELSE /\ procs' = Append(procs, [name |-> calls[t].name, state |-> "running"])
            /\ started' = [started EXCEPT ![calls[t].name] = Len(procs) + 1]
    /\ registry_lock' = 0
    /\ calls' = [calls EXCEPT ![t].pc = "done", ![t].ok = TRUE]
    /\ UNCHANGED hubVars

\* proc.send_signal(signal.SIGTERM) on a process that has not exited
Signalled(ps, pid) ==
    IF ps[pid].state = "exited" THEN ps ELSE [ps EXCEPT ![pid].state = "signalled"]

\* _stop_sidecar, lines 80-89, holding the lock.
StopBody(t) ==
    /\ calls[t].pc = "body" /\ calls[t].op = "stop"
    /\ IF started[calls[t].name] = NoProc
       THEN /\ UNCHANGED <<started, procs>>
            /\ calls' = [calls EXCEPT ![t].pc = "done"]
       ELSE /\ procs' = Signalled(procs, started[calls[t].name])
            /\ started' = [started EXCEPT ![calls[t].name] = NoProc]
            /\ calls' = [calls EXCEPT ![t].pc = "done", ![t].ok = TRUE]
    /\ registry_lock' = 0
    /\ UNCHANGED hubVars

\* A sidecar process exits: SIGTERM has taken effect, or it ended on its own
\* (generic_sidecar.py main returns or raises).
ProcExit(pid) ==
    /\ Alive(pid)
    /\ procs' = [procs EXCEPT ![pid].state = "exited"]
    /\ UNCHANGED <<started, registry_lock, calls>>
    /\ UNCHANGED hubVars

NextApi ==
    \/ Request
    \/ \E t \in 1..Len(calls) : Acquire(t)
    \/ \E t \in 1..Len(calls) : LaunchBody(t)
    \/ \E t \in 1..Len(calls) : StopBody(t)
    \/ \E pid \in 1..Len(procs) : ProcExit(pid)

IdlePlans == {Plan("idle", "scope1", V(0, 1), V(0, 1), V(0, 1), 0, 0, {}, TRUE)}

InitApi == InitProgram /\ plan \in IdlePlans
SpecApi == InitApi /\ [][NextApi]_vars


(***************************************************************************)
(* Properties.                                                             *)
(***************************************************************************)
\* The state the detectors keep between dispatches.
Prog == <<stats, feature_buffer, is_fitted, n_features_in, device_health,
          correlation_data, significant_correlations>>

\* A dispatch has just taken place.
Dispatched == tick' = tick + 1

\* The alerts of one type, and of one type and metric, in a sequence of alerts.
OfType(alerts, type) == {i \in 1..Len(alerts) : alerts[i].type = type}
OfMetric(alerts, type, key) ==
    {i \in OfType(alerts, type) : alerts[i].metric = key}

\* The payload decoded to a dict carrying a number for `key'.
Carries(p, key) == Parses(p) /\ p.is_dict /\ Get(p.d, key).t = "num"

SinksUp == msg.env.connected /\ msg.env.log_ok

\* C1: on_message returns normally for every payload, and the next
\* well-formed record delivered afterwards is still processed by the
\* detectors: with both sinks working, its dispatch raises nothing and runs
\* through the last step of the handler.
C1_NextRecordProcessed ==
    (tick >= 1 /\ IsRegular(msg.p) /\ SinksUp)
        => (exc = "" /\ reached = "correlation")

\* C2: a payload that does not parse as JSON is dropped: its dispatch changes
\* no tracker, detector, health or correlation state and emits, publishes and
\* logs no alert.
C2_NonJsonDropped ==
    [][(Dispatched /\ msg'.p.kind \in {"bytes", "python", "garbage"})
          => (Prog' = Prog /\ out' = <<>> /\ published' = <<>> /\ logged' = <<>>)]_vars

\* C3: a JSON record lacking `device' or `ts' is dropped: after its dispatch
\* every OnlineStats, every correlation series, the feature buffer and every
\* health entry are unchanged and no alert has been published or logged.
C3_IncompleteDropped ==
    [][(/\ Dispatched
        /\ msg'.p.kind = "json" /\ msg'.p.is_dict
        /\ (msg'.p.d.device = NoDevice \/ ~msg'.p.d.has_ts))
          => (/\ stats' = stats
              /\ correlation_data' = correlation_data
              /\ feature_buffer' = feature_buffer
              /\ device_health' = device_health
              /\ published' = <<>> /\ logged' = <<>>)]_vars

\* C4: dispatches never interleave: at most one dispatch is in progress at
\* any time, and every step of one dispatch is executed before any step of
\* the next.
C4_NoInterleaving ==
    /\ Len(active) <= 1
    /\ \A i, j \in 1..Len(steps) : i < j => steps[i] <= steps[j]

\* C4, its case: a dispatch is past its first step while a later packet has
\* already arrived and waits.
C4_Witness ==
    /\ inbox # <<>>
    /\ Len(active) = 1 /\ active[1].pc > 2 /\ active[1].pc <= Len(STAGES)
    /\ active[1].id > 1

\* C5: for each metric value of a record, exactly one statistical_anomaly
\* alert is emitted when the (device, metric) tracker has n > 20, std > 1e-9
\* and |value - mean| / std >= 3.0, and none otherwise.
C5_StatAlertIff ==
    \A key \in {"voltage", "current"} :
        Carries(msg.p, key) =>
            LET s == stats[DeviceOf(msg.p.d)][key]
                val == Get(msg.p.d, key).v
                n == Cardinality(OfMetric(out, "statistical_anomaly", key))
            IN  /\ n <= 1
                /\ (n = 1) <=> (/\ s.n > 20
                                /\ StdAboveEps(Variance(s))
                                /\ RLe(<<9, 1>>, ZSquared(s, val)))

\* C6: for each metric value of a record, a drift alert is emitted if and
\* only if the (device, metric) tracker has n > 30 and |slope| > 0.002, and
\* it carries that slope and the current EMA.
C6_DriftAlertIff ==
    \A key \in {"voltage", "current"} :
        Carries(msg.p, key) =>
            LET s == stats[DeviceOf(msg.p.d)][key]
                drifts == OfMetric(out, "drift", key)
            IN  /\ (drifts # {}) <=> (s.n > 30 /\ RLt(<<2, 1000>>, RAbs(slope(s))))
                /\ \A i \in drifts :
                      out[i].slope = slope(s) /\ out[i].ema = s.ema[1]

\* C7: 25 records from one device, current constant, voltage constant but
\* for one jump at tick 21: the dispatch of tick 21 emits exactly one
\* statistical_anomaly alert, for the voltage of that device, no other
\* dispatch emits one, and no dispatch emits a drift alert.
C7_EndToEnd ==
    tick >= 1 =>
        /\ Cardinality(OfType(out, "statistical_anomaly"))
              = (IF tick = JumpTick THEN 1 ELSE 0)
        /\ \A i \in OfType(out, "statistical_anomaly") :
              out[i].metric = "voltage" /\ out[i].device = plan.dev
        /\ OfType(out, "drift") = {}

\* C7, its case: the jump of tick 21 has been dispatched and its alert
\* emitted, after twenty flat records.
C7_Witness ==
    /\ tick = JumpTick
    /\ stats[plan.dev]["voltage"].n = JumpTick
    /\ Cardinality(OfMetric(out, "statistical_anomaly", "voltage")) = 1

\* C8: when a tracker holds more than 20 samples with mean 0 and standard
\* deviation 1, ingesting the value 3.0 emits a statistical_anomaly alert
\* whose z is 3.0.
C8_Boundary ==
    [][(/\ Dispatched
        /\ IsRegular(msg'.p)
        /\ msg'.p.d.voltage = V(3, 1)
        /\ stats[plan.dev]["voltage"].n > 20
        /\ stats[plan.dev]["voltage"].mean = Zero
        /\ Variance(stats[plan.dev]["voltage"]) = FromInt(1))
          => \E i \in OfMetric(out', "statistical_anomaly", "voltage") :
                out'[i].zsq = FromInt(9)]_vars

\* C9: the model becomes FITTED at the call on which the feature buffer
\* first holds 50 vectors, so it is fitted whenever the buffer holds 50 or
\* more, and _train_model fits at no other call.
C9_FittedOnceAtFifty ==
    /\ Len(feature_buffer) >= 50 => is_fitted
    /\ det.trained => Len(feature_buffer) = 50

C11_FailureProbabilityBounded ==
    \A dev \in DEVICES :
        /\ device_health[dev].failure_probability >= 0
        /\ 10 * device_health[dev].failure_probability <= 9 * MICRO

\* C11, its case: after a hundred steep records failure_probability has
\* reached 0.9 and further high-drift updates leave it there.
C11_Witness ==
    /\ tick > 101
    /\ device_health[plan.dev].drift_rate > MICRO \div 100
    /\ 10 * device_health[plan.dev].failure_probability = 9 * MICRO

\* C12: a maintenance_recommendation alert is emitted for a record if and
\* only if the recommendation list computed for that record is non-empty;
\* it carries health_score = 1 - failure_probability and exactly the list
\* computed on this update.
C12_MaintenanceAlertIff ==
    (Parses(msg.p) /\ msg.p.is_dict /\ reached \in {"health", "correlation"}) =>
        LET dev == DeviceOf(msg.p.d)
            h == device_health[dev]
            fresh == generate_recommendations(dev, h, msg.env.now)
            alerts == OfType(out, "maintenance_recommendation")
        IN  /\ Cardinality(alerts) = (IF fresh # <<>> THEN 1 ELSE 0)
            /\ \A i \in alerts :
                  /\ out[i].health_score = MICRO - h.failure_probability
                  /\ out[i].recommendations = fresh

\* The alerts written to the log by the last dispatch.
LoggedAlerts == [k \in 1..Len(logged) |-> logged[k].line]

\* C13: publish and log-append are independent sinks: for a well-formed
\* record that raises alerts, a failing publish leaves every alert logged, a
\* failing log-append leaves every alert published, and in either case the
\* handler goes on through its remaining steps.
C13_SinksIndependent ==
    (IsRegular(msg.p) /\ out # <<>> /\ ~SinksUp) =>
        /\ ~msg.env.connected => LoggedAlerts = out
        /\ ~msg.env.log_ok => published = out
        /\ exc = "" /\ reached = "correlation"

\* C14: every alert is appended as one line to the log file of the calendar
\* day on which it is dispatched: each alert handed to the sinks by a dispatch
\* whose log-append works has one line, and that line is in the file of the
\* day of the dispatch.
C14_LoggedToFileOfTheDay ==
    msg.env.log_ok =>
        /\ LoggedAlerts = out
        /\ \A k \in 1..Len(logged) : logged[k].file = Day(msg.env.now)

\* C15: every per-(device, metric) correlation series holds at most the fixed
\* capacity of 50 points.
C15_SeriesBounded ==
    \A i \in 1..Len(correlation_data) :
        \A j \in 1..Len(correlation_data[i].val) :
            Len(correlation_data[i].val[j].val) <= CORR_TAIL

\* C16: a dispatch runs the correlation analysis exactly when it carries the
\* aggregate number of samples held across all series to or past a further
\* multiple of 100.
C16_AnalysisEveryHundred ==
    [][Dispatched =>
          (analysed' <=> TotalSamples(correlation_data) \div CORR_PERIOD
                           < TotalSamples(correlation_data') \div CORR_PERIOD)]_vars

Range(seq) == {seq[k] : k \in 1..Len(seq)}

\* C17: when an analysis run leaves at least one surviving correlation,
\* exactly one correlation_discovery alert is emitted; it carries at most 5
\* of the survivors, and no omitted survivor has a larger |correlation| than
\* an included one.
C17_TopFiveByMagnitude ==
    (analysed /\ significant_correlations # <<>>) =>
        LET alerts == OfType(out, "correlation_discovery")
        IN  /\ Cardinality(alerts) = 1
            /\ \A a \in alerts :
                  /\ Len(out[a].correlations) <= TOP_CORRELATIONS
                  /\ Range(out[a].correlations) \subseteq Range(significant_correlations)
                  /\ \A inc \in Range(out[a].correlations) :
                        \A om \in Range(significant_correlations)
                                     \ Range(out[a].correlations) :
                           ~RLt(inc.correlation.sq, om.correlation.sq)

\* The series held, each with its device and metric, and the pairs of series
\* from two distinct devices that both hold at least 10 points.
SeriesOf(cd) ==
    {[device |-> cd[i].key, metric |-> cd[i].val[j].key, data |-> cd[i].val[j].val] :
        <<i, j>> \in {<<i, j>> \in (1..Len(cd)) \X (1..Len(METRICS)) :
                         j <= Len(cd[i].val)}}

LongPairs(cd) ==
    {<<a, b>> \in SeriesOf(cd) \X SeriesOf(cd) :
        /\ a.device # b.device
        /\ Len(a.data) >= MIN_CORR_POINTS /\ Len(b.data) >= MIN_CORR_POINTS}

\* The Pearson coefficient over the tails of two series truncated to the
\* same count, at most the last 50 points of each.
TruncatedPearson(data1, data2) ==
    Pearson(ValuesOf(LastK(data1, Min(Min(Len(data1), Len(data2)), CORR_TAIL))),
            ValuesOf(LastK(data2, Min(Min(Len(data1), Len(data2)), CORR_TAIL))))

\* C20: whenever both series of a pair hold at least 10 points, the pair's
\* correlation is the Pearson coefficient over the tails of the two series
\* truncated to the same count, also when the series differ in length.
C20_TruncatedToSameCount ==
    \A pair \in LongPairs(correlation_data) :
        calculate_correlation(pair[1].data, pair[2].data)
            = TruncatedPearson(pair[1].data, pair[2].data)

\* Those of the entries analyze_correlations returned that are for the pair
\* of series a, b.
EntriesFor(found, a, b) ==
    {e \in found :
        \/ /\ e.device1 = a.device /\ e.metric1 = a.metric
           /\ e.device2 = b.device /\ e.metric2 = b.metric
        \/ /\ e.device1 = b.device /\ e.metric1 = b.metric
           /\ e.device2 = a.device /\ e.metric2 = a.metric}

BothLong(a, b) ==
    Len(a.data) >= MIN_CORR_POINTS /\ Len(b.data) >= MIN_CORR_POINTS

\* C18: analyze_correlations returns an entry for a pair of series from two
\* distinct devices if and only if both hold at least 10 points and their
\* Pearson coefficient r has |r| > 0.7; the entry is "strong" exactly when
\* |r| > 0.8 and "moderate" otherwise; a pair with a series of fewer than 10
\* points has correlation 0 and no entry.
SignificantOnly(found, a, b, r) ==
    /\ EntriesFor(found, a, b) # {}
          <=> (BothLong(a, b) /\ AbsAbove(r, CORRELATION_THRESHOLD))
    /\ \A e \in EntriesFor(found, a, b) :
          e.strength = "strong" <=> AbsAbove(r, STRONG_THRESHOLD)
    /\ ~BothLong(a, b) => calculate_correlation(a.data, b.data) = CorrZero

AllSignificantOnly(cd, found) ==
    \A a \in SeriesOf(cd) :
        \A b \in {s \in SeriesOf(cd) : s.device # a.device} :
            SignificantOnly(found, a, b, TruncatedPearson(a.data, b.data))

C18_EntryIffSignificant ==
    AllSignificantOnly(correlation_data, Range(analyze_correlations(correlation_data)))

Negated(values) == [k \in 1..Len(values) |-> RNeg(values[k])]

\* C19: for two series of at least 10 points held by two distinct devices,
\* identical series have correlation 1.0, reported with strength "strong",
\* and a series and its exact negation have correlation -1.0, whatever the
\* values.
C19_IdenticalAndNegated ==
    \A pair \in LongPairs(correlation_data) :
        /\ ValuesOf(pair[1].data) = ValuesOf(pair[2].data) =>
              /\ calculate_correlation(pair[1].data, pair[2].data) = Corr(1, FromInt(1))
              /\ \E e \in Range(CorrEntry(pair[1].device,
                                          [key |-> pair[1].metric, val |-> pair[1].data],
                                          pair[2].device,
                                          [key |-> pair[2].metric, val |-> pair[2].data])) :
                    e.strength = "strong"
        /\ ValuesOf(pair[1].data) = Negated(ValuesOf(pair[2].data)) =>
              calculate_correlation(pair[1].data, pair[2].data) = Corr(-1, FromInt(1))

\* The invariants of one tracker.
TrackerSound(s) ==
    /\ s.n >= 0
    /\ s.M2[1] >= 0
    /\ (s.ema = None) <=> (s.n = 0)
    /\ Len(s.hist) = Min(s.n, SLOPE_WINDOW)

\* C21: in every reachable state every (device, metric) tracker has n >= 0
\* and M2 >= 0, its ema is None exactly when n = 0, and its EMA window holds
\* min(n, 30) values.
C21_TrackerInvariants ==
    \A dev \in DEVICES : \A key \in Range(METRICS) : TrackerSound(stats[dev][key])

RECURSIVE SumSq(_, _, _, _)
\* sum over k in i..Len(xs) of (xs[k] - m)^2
SumSq(xs, m, i, acc) ==
    IF i > Len(xs) THEN acc
    ELSE SumSq(xs, m, i + 1, RAdd(acc, RMul(RSub(xs[i], m), RSub(xs[i], m))))

BatchMean(xs) == RDiv(SumOver(xs, Ones(Len(xs)), 1, Zero), FromInt(Len(xs)))

\* The tracker s agrees with the batch computation on the numbers xs: its
\* mean is their arithmetic mean and its M2 the sum of their squared
\* deviations from it.
MatchesBatch(s, xs) ==
    /\ s.mean = BatchMean(xs)
    /\ s.M2 = SumSq(xs, BatchMean(xs), 1, Zero)
    /\ (\A k \in 1..Len(xs) : xs[k] = xs[1]) => (s.mean = xs[1] /\ Variance(s) = Zero)

\* C22: after any sequence of update calls, the mean of a tracker is the
\* arithmetic mean of the numbers fed to it and its M2 the sum of their squared
\* deviations from that mean; identical values x give mean = x and std = 0.
\* The numbers fed to a tracker are those of its correlation series, which is
\* appended to after each update and never evicted from.
C22_WelfordMatchesBatch ==
    \A series \in SeriesOf(correlation_data) :
        MatchesBatch(stats[series.device][series.metric], ValuesOf(series.data))

\* What C23 says of a tracker s that was `old' before the step: a value pushed
\* into the window is the new EMA and leaves the 30 most recent EMA values
\* there; the slope is 0.0 with fewer than 2 values in the window and
\* (newest - oldest) / (length - 1) otherwise.
SlopeOverWindow(old, s) ==
    /\ s.hist # old.hist =>
          s.hist = LastK(Append(old.hist, s.ema[1]), SLOPE_WINDOW)
    /\ Len(s.hist) <= SLOPE_WINDOW
    /\ Len(s.hist) < 2 => slope(s) = Zero
    /\ Len(s.hist) >= 2 =>
          slope(s) = RDiv(Norm(s.hist[Len(s.hist)] - s.hist[1], MICRO),
                          FromInt(Len(s.hist) - 1))

\* C23: slope returns exactly 0.0 whenever the EMA window holds fewer than 2
\* values, and otherwise (newest EMA - oldest EMA in the window) / (window
\* length - 1), over at most the 30 most recent EMA values.
C23_SlopeOverWindow ==
    [][\A dev \in DEVICES : \A key \in Range(METRICS) :
          SlopeOverWindow(stats[dev][key], stats'[dev][key])]_vars

\* A tracker that has evicted values from its window and has a slope.
C23_Witness ==
    \E dev \in DEVICES : \E key \in Range(METRICS) :
        /\ stats[dev][key].n > SLOPE_WINDOW
        /\ Len(stats[dev][key].hist) = SLOPE_WINDOW
        /\ slope(stats[dev][key]) # Zero

\* The dispatch in progress is at its detector step, and that step fits the
\* model: the fit is in progress.
Fitting ==
    \E i \in 1..Len(active) :
        /\ active[i].pc <= Len(STAGES) /\ STAGES[active[i].pc] = "ai"
        /\ Stage("ai", State, msg.p, msg.env).det.trained

\* C24: the model fit does not stall ingestion: a record that has arrived
\* while the fit is in progress can be dispatched, the loop being free to
\* enter on_message for it.
C24_FitDoesNotStall ==
    (Fitting /\ inbox # <<>>) => LoopIdle

\* The record p is from dev and carries a metric whose tracker, in st, has
\* more than 10 samples.
HasSeasonedMetric(p, dev, st) ==
    /\ Parses(p) /\ p.is_dict /\ DeviceOf(p.d) = dev
    /\ \E key \in Range(METRICS) : Carries(p, key) /\ st[dev][key].n > MIN_N_HEALTH

\* C25: a device's drift_rate and failure_probability are modified only by a
\* record of that device that contains a tracked metric whose sample count
\* exceeds 10; any other record leaves both unchanged.
C25_HealthFrame ==
    [][Dispatched =>
          \A dev \in DEVICES :
              ~HasSeasonedMetric(msg'.p, dev, stats') =>
                  /\ device_health'[dev].drift_rate = device_health[dev].drift_rate
                  /\ device_health'[dev].failure_probability
                        = device_health[dev].failure_probability]_vars

\* The payload decodes to a record with neither voltage nor current.
NoKnownMetric(p) ==
    /\ Parses(p) /\ p.is_dict
    /\ p.d.voltage.t = "absent" /\ p.d.current.t = "absent"

\* C26: for a record that carries neither voltage nor current, feature
\* extraction yields an empty vector, detect_anomaly returns (False, 0.0),
\* and the record adds nothing to the feature buffer.
C26_NoMetricNoVector ==
    [][(Dispatched /\ NoKnownMetric(msg'.p)) =>
          /\ extract_features(msg'.p.d, msg'.env) = <<>>
          /\ det'.called /\ det'.returned /\ ~det'.is_anomaly /\ det'.score = 0
          /\ feature_buffer' = feature_buffer]_vars

\* C27: detect_anomaly fails soft: whenever the last dispatch called it, it
\* returned a result and raised nothing, also with feature vectors of
\* different lengths in the buffer or a vector of another width than the
\* model was fitted on.
C27_DetectorFailsSoft ==
    det.called => det.returned

\* C28: every message the sidecar publishes is one JSON object with a
\* `device' field equal to the configured device name and a `ts' field.
C28_SidecarContract ==
    (plan.name = "sidecar" /\ tick >= 1) =>
        /\ msg.p.kind = "json" /\ msg.p.is_dict
        /\ msg.p.d.device = plan.dev
        /\ msg.p.d.has_ts

\* The live processes started for a device name.
LiveFor(name) == {pid \in 1..Len(procs) : procs[pid].name = name /\ Alive(pid)}

\* C29: after any sequence and interleaving of launch and stop requests, at
\* most one live sidecar process exists per device name.
C29_OneSidecarPerName ==
    \A name \in SIDECARS : Cardinality(LiveFor(name)) <= 1

\* C30: last_calibration is None for every device in every reachable state,
\* and every record whose dispatch reaches the predictive-maintenance step
\* leaves a non-empty recommendation list and emits exactly one
\* maintenance_recommendation alert.
C30_AlwaysOverdue ==
    /\ \A dev \in DEVICES : device_health[dev].last_calibration = None
    /\ reached \in {"health", "correlation"} =>
          /\ device_health[DeviceOf(msg.p.d)].recommendations # <<>>
          /\ Cardinality(OfType(out, "maintenance_recommendation")) = 1

====
